---- MODULE Spec2Model ----
(***************************************************************************)
(* Wire codec of X Rust Bindings: the hand-written Delay codec and the     *)
(* messages declared with derive_xrb! in src/x11/request/meta.rs,          *)
(* src/big_requests/request.rs and src/x11/event.rs.                       *)
(*                                                                         *)
(* A byte buffer is a sequence of integers 0..255 and a read cursor is the *)
(* number of bytes already consumed.  Buf::get_i16 and BufMut::put_i16 are *)
(* the methods of the `bytes` crate that xrbk re-exports: big-endian, and  *)
(* get_i16 panics when fewer than 2 bytes remain.                          *)
(***************************************************************************)
EXTENDS Integers, Sequences, FiniteSets, TLC

VARIABLES ty, op, value, buf, cursor, result

vars == <<ty, op, value, buf, cursor, result>>

Byte == 0..255

(* ------------------------------------------------------------------ *)
(* Primitive integers                                                  *)
(* ------------------------------------------------------------------ *)

\* Two's-complement reinterpretation of an unsigned 16-bit pattern as i16.
AsI16(u) == IF u >= 32768 THEN u - 65536 ELSE u

\* BufMut::put_i16: appends the two bytes of x, high byte first.
put_i16(b, x) ==
    LET u == x % 65536
    IN  b \o <<u \div 256, u % 256>>

\* Buf::get_i16 on the bytes that remain at cursor c: the value and the
\* advanced cursor; a panic when fewer than 2 bytes remain.
get_i16(b, c) ==
    IF Len(b) - c < 2
    THEN [panic |-> TRUE, v |-> 0, c |-> c]
    ELSE [panic |-> FALSE, v |-> AsI16(b[c + 1] * 256 + b[c + 2]), c |-> c + 2]

\* A wrapping cast, `other as u8`, in place of the checked conversion.
u8_wrapping_cast(x) == [ok |-> TRUE, v |-> x % 256]

\* u8::try_from(i16)
u8_try_from(x) == [ok |-> (x >= 0 /\ x <= 255), v |-> x]

\* i16::from(u8)
i16_from(s) == s

(* ------------------------------------------------------------------ *)
(* Delay                                                               *)
(* ------------------------------------------------------------------ *)

Default == [tag |-> "Default", sec |-> 0]
Disabled == [tag |-> "Disabled", sec |-> 0]
Enabled(s) == [tag |-> "Enabled", sec |-> s]
NoValue == [tag |-> "None", sec |-> 0]

\* Every constructible Delay: Sec<u8> holds any u8.
Delay == {Default, Disabled} \cup {Enabled(s) : s \in Byte}

\* <Delay as ConstantX11Size>::X11_SIZE = i16::X11_SIZE
X11_SIZE == 2

\* The size of the variant's payload, a Sec<u8>, in place of the constant.
x11_size_of_payload(d) == IF d.tag = "Enabled" THEN 1 ELSE X11_SIZE

\* <Delay as X11Size>::x11_size
x11_size(d) == X11_SIZE

Ok(v, c) == [kind |-> "Ok", val |-> v, err |-> "", c |-> c]
Err(e, c) == [kind |-> "Err", val |-> NoValue, err |-> e, c |-> c]
Panic(c) == [kind |-> "Panic", val |-> NoValue, err |-> "", c |-> c]
NoResult == [kind |-> "None", val |-> NoValue, err |-> "", c |-> 0]

\* read_from that puts the cursor back where it was when the conversion
\* fails.
Delay_read_from_RestoringCursor(b, c) ==
    LET r == get_i16(b, c)
    IN  IF r.panic THEN Panic(c)
        ELSE IF r.v = -1 THEN Ok(Default, r.c)
        ELSE IF r.v = 0 THEN Ok(Disabled, r.c)
        ELSE IF u8_try_from(r.v).ok THEN Ok(Enabled(u8_try_from(r.v).v), r.c)
        ELSE Err("FailedConversion", c)

\* <Delay as Readable>::read_from
Delay_read_from(b, c) ==
    LET r == get_i16(b, c)
    IN  IF r.panic THEN Panic(c)
        ELSE IF r.v = -1 THEN Ok(Default, r.c)
        ELSE IF r.v = 0 THEN Ok(Disabled, r.c)
        ELSE IF u8_try_from(r.v).ok THEN Ok(Enabled(u8_try_from(r.v).v), r.c)
        ELSE Err("FailedConversion", r.c)

\* write_to with the integers of the Default and Disabled arms exchanged.
Delay_write_to_SwappedSentinels(d, b) ==
    IF d.tag = "Default" THEN put_i16(b, 0)
    ELSE IF d.tag = "Disabled" THEN put_i16(b, -1)
    ELSE put_i16(b, i16_from(d.sec))

\* <Delay as Writable>::write_to; the Enabled arm writes the widened i16
\* through the primitive writer, which is put_i16 like the other two arms.
Delay_write_to(d, b) ==
    IF d.tag = "Default" THEN put_i16(b, -1)
    ELSE IF d.tag = "Disabled" THEN put_i16(b, 0)
    ELSE put_i16(b, i16_from(d.sec))

(* ------------------------------------------------------------------ *)
(* Delay codec session                                                 *)
(* ------------------------------------------------------------------ *)

Init ==
    /\ ty = "none"
    /\ op = "idle"
    /\ value = NoValue
    /\ buf = <<>>
    /\ cursor = 0
    /\ result = NoResult

\* A client encodes a Delay into an empty buffer.
WriteDelay ==
    /\ op = "idle"
    /\ \E d \in Delay :
        /\ value' = d
        /\ buf' = Delay_write_to(d, <<>>)
    /\ ty' = "Delay"
    /\ op' = "written"
    /\ cursor' = 0
    /\ result' = NoResult

\* Two bytes arrive from a peer: any 16-bit pattern.
ReceiveDelay ==
    /\ op = "idle"
    /\ \E hi \in Byte, lo \in Byte : buf' = <<hi, lo>>
    /\ ty' = "Delay"
    /\ op' = "received"
    /\ value' = NoValue
    /\ cursor' = 0
    /\ result' = NoResult

\* The last byte of an encoded frame is lost before decoding.
TruncateDelay ==
    /\ ty = "Delay"
    /\ op = "written"
    /\ buf' = SubSeq(buf, 1, Len(buf) - 1)
    /\ op' = "truncated"
    /\ UNCHANGED <<ty, value, cursor, result>>

\* Delay::read_from on the buffer.
ReadDelay ==
    /\ ty = "Delay"
    /\ op \in {"written", "received", "truncated"}
    /\ result' = Delay_read_from(buf, cursor)
    /\ cursor' = result'.c
    /\ op' = IF op = "truncated" THEN "read_truncated" ELSE "read"
    /\ UNCHANGED <<ty, value, buf>>

\* The Delay that was read is written again, after the bytes it came from.
RewriteDelay ==
    /\ ty = "Delay"
    /\ op = "read"
    /\ result.kind = "Ok"
    /\ buf' = Delay_write_to(result.val, buf)
    /\ op' = "rewritten"
    /\ UNCHANGED <<ty, value, cursor, result>>

\* Bytes that precede the delay field in the buffer it is read from.
MaxLeading == 2

\* Bytes that follow the delay field in that buffer.
MaxFollowing == 2

\* The bytes of the 16-bit patterns placed inside a longer buffer.
EdgeBytes == {0, 1, 127, 128, 255}

\* A delay field arrives inside a longer buffer: the cursor stands before
\* its two bytes, and other bytes precede and follow them.
ReceiveDelayInFrame ==
    /\ op = "idle"
    /\ \E lead \in 0..MaxLeading, trail \in 0..MaxFollowing,
          hi \in EdgeBytes, lo \in EdgeBytes, fill \in EdgeBytes :
        /\ buf' = [i \in 1..lead |-> fill] \o <<hi, lo>>
                     \o [i \in 1..trail |-> fill]
        /\ cursor' = lead
        /\ value' = [start |-> lead, field |-> <<hi, lo>>]
    /\ ty' = "Delay"
    /\ op' = "received_in_frame"
    /\ result' = NoResult

\* Delay::read_from at the cursor of the longer buffer.
ReadDelayInFrame ==
    /\ ty = "Delay"
    /\ op = "received_in_frame"
    /\ result' = Delay_read_from(buf, cursor)
    /\ cursor' = result'.c
    /\ op' = "read_in_frame"
    /\ UNCHANGED <<ty, value, buf>>

NextDelay ==
    \/ WriteDelay
    \/ ReceiveDelay
    \/ TruncateDelay
    \/ ReadDelay
    \/ RewriteDelay
    \/ ReceiveDelayInFrame
    \/ ReadDelayInFrame

SpecDelay == Init /\ [][NextDelay]_vars

(* ------------------------------------------------------------------ *)
(* Wire types of the derived messages                                  *)
(* ------------------------------------------------------------------ *)

\* xrbk::pad: the bytes that bring a run of n bytes to a 4-byte boundary.
pad(n) == (4 - (n % 4)) % 4

Zeros(n) == [i \in 1..n |-> 0]

\* Big-endian bytes of the unsigned integer x on w bytes.
IntBytes(w, x) == [i \in 1..w |-> (x \div (256 ^ (w - i))) % 256]

\* The unsigned big-endian integer held by the w bytes after cursor c.
RECURSIVE BytesInt(_, _, _)
BytesInt(b, c, w) ==
    IF w = 0 THEN 0 ELSE BytesInt(b, c, w - 1) * 256 + b[c + w]

\* Width in bytes of the fixed-width integer-like wire types.
IntWidth ==
    [u8 |-> 1, u16 |-> 2, i16 |-> 2, bool |-> 1, Keycode |-> 1, Button |-> 1,
     Window |-> 4, OptionWindow |-> 4, Timestamp |-> 4, CurrentableTime |-> 4,
     Atom |-> 4, OptionAtom |-> 4, Colormap |-> 4, OptionColormap |-> 4,
     Drawable |-> 4, Point |-> 4, ModifierMask |-> 2,
     ConfigureWindowMask |-> 2, EnterLeaveMask |-> 1]

\* The enums with a third variant declared for Placement.
EnumVariants_PlacementOfThree ==
    [AddOrRemove |-> <<"Add", "Remove">>,
     ToggleOrDefault |-> <<"Disabled", "Enabled", "Default">>,
     MotionNotificationType |-> <<"Normal", "Hint">>,
     EnterLeaveDetail |-> <<"Ancestor", "Intermediate", "Descendant",
                            "Nonlinear", "NonlinearIntermediate">>,
     FocusDetail |-> <<"Ancestor", "Virtual", "Inferior", "Nonlinear",
                       "NonlinearVirtual", "Pointer", "PointerRoot", "None">>,
     FocusGrabMode |-> <<"Normal", "Grab", "Ungrab", "WhileGrabbed">>,
     GrabMode |-> <<"Normal", "Grab", "Ungrab">>,
     StackMode |-> <<"Above", "Below", "TopIf", "BottomIf", "Opposite">>,
     Visibility |-> <<"Unobscured", "PartiallyObscured", "FullyObscured">>,
     Placement |-> <<"Top", "Bottom", "Middle">>,
     PropertyChange |-> <<"Modified", "Deleted">>,
     MappingNotifyRequest |-> <<"Modifier", "Keyboard", "Pointer">>]

\* Variants, in declaration order, of the enums that encode as one
\* discriminant byte.
EnumVariants ==
    [AddOrRemove |-> <<"Add", "Remove">>,
     ToggleOrDefault |-> <<"Disabled", "Enabled", "Default">>,
     MotionNotificationType |-> <<"Normal", "Hint">>,
     EnterLeaveDetail |-> <<"Ancestor", "Intermediate", "Descendant",
                            "Nonlinear", "NonlinearIntermediate">>,
     FocusDetail |-> <<"Ancestor", "Virtual", "Inferior", "Nonlinear",
                       "NonlinearVirtual", "Pointer", "PointerRoot", "None">>,
     FocusGrabMode |-> <<"Normal", "Grab", "Ungrab", "WhileGrabbed">>,
     GrabMode |-> <<"Normal", "Grab", "Ungrab">>,
     StackMode |-> <<"Above", "Below", "TopIf", "BottomIf", "Opposite">>,
     Visibility |-> <<"Unobscured", "PartiallyObscured", "FullyObscured">>,
     Placement |-> <<"Top", "Bottom">>,
     PropertyChange |-> <<"Modified", "Deleted">>,
     MappingNotifyRequest |-> <<"Modifier", "Keyboard", "Pointer">>]

\* EnterLeaveMask with SAME_SCREEN declared as 0x04.
EnterLeaveMask_SameScreen4 == [FOCUS |-> 1, SAME_SCREEN |-> 4]

\* The named flags of the bitflags! struct EnterLeaveMask: u8.
EnterLeaveMask == [FOCUS |-> 1, SAME_SCREEN |-> 2]

\* The named flags of the bitmask types.
MaskFlags == [EnterLeaveMask |-> EnterLeaveMask]

IsMask(t) == t \in DOMAIN MaskFlags
FlagValues(t) == {MaskFlags[t][n] : n \in DOMAIN MaskFlags[t]}

RECURSIVE SumOf(_)
SumOf(S) ==
    IF S = {} THEN 0
    ELSE LET x == CHOOSE y \in S : TRUE IN x + SumOf(S \ {x})

\* The masks of type t: the unions of its named flags.
Masks(t) == {SumOf(S) : S \in SUBSET FlagValues(t)}

\* The mask of the named flags of t that are set in x; the other bits of x
\* are dropped.
from_bits_truncate(t, x) == SumOf({f \in FlagValues(t) : (x \div f) % 2 = 1})

\* Length of the fixed byte arrays.
ArrayLen == [Keycode31 |-> 31, u8x20 |-> 20]

IsInt(t) == t \in DOMAIN IntWidth
IsEnum(t) == t \in DOMAIN EnumVariants
IsArray(t) == t \in DOMAIN ArrayLen

\* Discriminant of a variant: its position in the declaration, from 0.
Discriminant(t, v) ==
    CHOOSE d \in 0..(Len(EnumVariants[t]) - 1) : EnumVariants[t][d + 1] = v

\* x11_size of one value of wire type t.
TypeSize(t, v) ==
    IF IsInt(t) THEN IntWidth[t]
    ELSE IF IsEnum(t) THEN 1
    ELSE IF IsArray(t) THEN ArrayLen[t]
    ELSE IF t = "Delay" THEN x11_size(v)
    ELSE Len(v)

\* write_to of one value of wire type t: the bytes it appends.
TypeBytes(t, v) ==
    IF IsInt(t) THEN IntBytes(IntWidth[t], v)
    ELSE IF IsEnum(t) THEN <<Discriminant(t, v)>>
    ELSE IF t = "Delay" THEN Delay_write_to(v, <<>>)
    ELSE v

(* ------------------------------------------------------------------ *)
(* Elements of a derive_xrb! message declaration                       *)
(* ------------------------------------------------------------------ *)

\* `pub name: t`, with an optional #[metabyte] or #[sequence] role.
Field(name, t) == [k |-> "field", name |-> name, t |-> t, role |-> "none", n |-> 0]
Metabyte(name, t) == [k |-> "field", name |-> name, t |-> t, role |-> "metabyte", n |-> 0]
Sequence(name, t) == [k |-> "field", name |-> name, t |-> t, role |-> "sequence", n |-> 0]
\* `#[context(len => usize::from(*len))] pub name: t`
ContextField(name, t, len) == [k |-> "context", name |-> name, t |-> t, role |-> len, n |-> 0]
\* `let name: t = of => of.len() as t`
LetLen(name, t, of) == [k |-> "let", name |-> name, t |-> t, role |-> of, n |-> 0]
\* `_` and `[_; n]`
Unused(n) == [k |-> "unused", name |-> "_", t |-> "_", role |-> "none", n |-> n]
\* `[_; of => pad(of)]`
UnusedPad(of) == [k |-> "pad", name |-> "_", t |-> "_", role |-> of, n |-> 0]
\* `[_; ..]`
UnusedInfer == [k |-> "infer", name |-> "_", t |-> "_", role |-> "none", n |-> 0]

(* ------------------------------------------------------------------ *)
(* Requests of src/x11/request/meta.rs and src/big_requests/request.rs *)
(* ------------------------------------------------------------------ *)

\* ChangeSavedWindows declared without #[metabyte] on change_mode.
ChangeSavedWindows_NoMetabyte ==
    [name |-> "ChangeSavedWindows", opcode |-> 6, constant |-> TRUE,
     elems |-> <<Field("change_mode", "AddOrRemove"),
                 Field("window", "Window")>>]

ChangeSavedWindows ==
    [name |-> "ChangeSavedWindows", opcode |-> 6, constant |-> TRUE,
     elems |-> <<Metabyte("change_mode", "AddOrRemove"),
                 Field("window", "Window")>>]

\* QueryExtension declared without its trailing `[_; name => pad(name)]`.
QueryExtension_Unpadded ==
    [name |-> "QueryExtension", opcode |-> 98, constant |-> FALSE,
     elems |-> <<LetLen("name_len", "u16", "name"),
                 Unused(2),
                 ContextField("name", "String8", "name_len")>>]

\* QueryExtension declared without the two reserved bytes `[_; 2]`.
QueryExtension_NoReserved ==
    [name |-> "QueryExtension", opcode |-> 98, constant |-> FALSE,
     elems |-> <<LetLen("name_len", "u16", "name"),
                 ContextField("name", "String8", "name_len"),
                 UnusedPad("name")>>]

QueryExtension ==
    [name |-> "QueryExtension", opcode |-> 98, constant |-> FALSE,
     elems |-> <<LetLen("name_len", "u16", "name"),
                 Unused(2),
                 ContextField("name", "String8", "name_len"),
                 UnusedPad("name")>>]

ListExtensions ==
    [name |-> "ListExtensions", opcode |-> 99, constant |-> TRUE, elems |-> <<>>]

\* SetScreenSaver declared without its trailing `[_; 2]`.
SetScreenSaver_NoTrailing ==
    [name |-> "SetScreenSaver", opcode |-> 107, constant |-> TRUE,
     elems |-> <<Field("timeout", "Delay"),
                 Field("interval", "Delay"),
                 Field("prefer_blanking", "ToggleOrDefault"),
                 Field("allow_expose_events", "ToggleOrDefault")>>]

SetScreenSaver ==
    [name |-> "SetScreenSaver", opcode |-> 107, constant |-> TRUE,
     elems |-> <<Field("timeout", "Delay"),
                 Field("interval", "Delay"),
                 Field("prefer_blanking", "ToggleOrDefault"),
                 Field("allow_expose_events", "ToggleOrDefault"),
                 Unused(2)>>]

GetScreenSaver ==
    [name |-> "GetScreenSaver", opcode |-> 108, constant |-> TRUE, elems |-> <<>>]

EnableBigRequests ==
    [name |-> "EnableBigRequests", opcode |-> 0, constant |-> FALSE, elems |-> <<>>]

Requests ==
    {ChangeSavedWindows, QueryExtension, ListExtensions, SetScreenSaver,
     GetScreenSaver, EnableBigRequests}

RequestNamed(n) == CHOOSE m \in Requests : m.name = n

\* Bytes of a request before its body: major opcode, metabyte, length.
RequestHeader == 4

(* ------------------------------------------------------------------ *)
(* Derived X11Size and Writable                                        *)
(* ------------------------------------------------------------------ *)

\* The smallest frame of an event; `[_; ..]` fills a frame up to it.
MinEventLength == 32

\* Size of one element that follows `before` bytes of the frame, for the
\* field values f.
ElemSize(e, f, before, min) ==
    IF e.k = "field" \/ e.k = "context" THEN TypeSize(e.t, f[e.name])
    ELSE IF e.k = "let" THEN IntWidth[e.t]
    ELSE IF e.k = "unused" THEN e.n
    ELSE IF e.k = "pad" THEN pad(TypeSize("String8", f[e.role]))
    ELSE IF before < min THEN min - before ELSE 0

\* A field that the header carries: the #[metabyte] or #[sequence] field.
InHeader(e) == e.k = "field" /\ e.role \in {"metabyte", "sequence"}

\* Sum of the sizes of elements i.., the header's fields excepted.
RECURSIVE ElemsSize(_, _, _, _, _)
ElemsSize(elems, f, i, before, min) ==
    IF i > Len(elems) THEN before
    ELSE IF InHeader(elems[i])
         THEN ElemsSize(elems, f, i + 1, before, min)
    ELSE ElemsSize(elems, f, i + 1,
                   before + ElemSize(elems[i], f, before, min), min)

\* Bytes one element appends to the frame b.
ElemBytes(e, f, b, min) ==
    IF e.k = "field" \/ e.k = "context" THEN TypeBytes(e.t, f[e.name])
    ELSE IF e.k = "let" THEN IntBytes(IntWidth[e.t], Len(f[e.role]) % (256 ^ IntWidth[e.t]))
    ELSE IF e.k = "unused" THEN Zeros(e.n)
    ELSE IF e.k = "pad" THEN Zeros(pad(Len(f[e.role])))
    ELSE IF Len(b) < min THEN Zeros(min - Len(b)) ELSE <<>>

\* The frame b extended with the elements i.., in declaration order.
RECURSIVE WriteElems(_, _, _, _, _)
WriteElems(elems, f, i, b, min) ==
    IF i > Len(elems) THEN b
    ELSE IF InHeader(elems[i])
         THEN WriteElems(elems, f, i + 1, b, min)
    ELSE WriteElems(elems, f, i + 1, b \o ElemBytes(elems[i], f, b, min), min)

\* The byte at offset 1 of a frame: the #[metabyte] field, or zero.
MetabyteOf(elems, f) ==
    LET ms == {i \in 1..Len(elems) : elems[i].k = "field" /\ elems[i].role = "metabyte"}
    IN  IF ms = {} THEN <<0>>
        ELSE LET e == elems[CHOOSE i \in ms : TRUE] IN TypeBytes(e.t, f[e.name])

\* <R as X11Size>::x11_size of a request value v: header and body.
Request_x11_size(v) ==
    ElemsSize(RequestNamed(v.msg).elems, v.f, 1, RequestHeader, 0)

\* <R as Writable>::write_to of a request value v: opcode, metabyte, length
\* in 4-byte words, body.
Request_write_to(v) ==
    LET m == RequestNamed(v.msg)
    IN  WriteElems(m.elems, v.f, 1,
                   <<m.opcode>> \o MetabyteOf(m.elems, v.f)
                       \o IntBytes(2, (Request_x11_size(v) \div 4) % 65536),
                   0)

(* ------------------------------------------------------------------ *)
(* Derived Readable                                                    *)
(* ------------------------------------------------------------------ *)

\* read_from of one value of wire type t at cursor c; n is the length that
\* the context gives a String8.
ReadType(t, b, c, n) ==
    IF t = "Delay" THEN Delay_read_from(b, c)
    ELSE IF IsEnum(t) THEN
        IF Len(b) - c < 1 THEN Err("Truncated", c)
        ELSE IF b[c + 1] >= Len(EnumVariants[t]) THEN Err("InvalidDiscriminant", c + 1)
        ELSE Ok(EnumVariants[t][b[c + 1] + 1], c + 1)
    ELSE IF IsMask(t) THEN
        IF Len(b) - c < IntWidth[t] THEN Err("Truncated", c)
        ELSE Ok(from_bits_truncate(t, BytesInt(b, c, IntWidth[t])), c + IntWidth[t])
    ELSE IF IsInt(t) THEN
        IF Len(b) - c < IntWidth[t] THEN Err("Truncated", c)
        ELSE Ok(BytesInt(b, c, IntWidth[t]), c + IntWidth[t])
    ELSE
        LET len == IF IsArray(t) THEN ArrayLen[t] ELSE n
        IN  IF Len(b) - c < len THEN Err("Truncated", c)
            ELSE Ok(SubSeq(b, c + 1, c + len), c + len)

\* Skips n unused bytes at cursor c without interpreting them.
Skip(b, c, n) ==
    IF Len(b) - c < n THEN Err("Truncated", c) ELSE Ok(NoValue, c + n)

\* Reads the elements i.. at cursor c.  f holds the fields read so far and
\* ctx the `let` values that later elements consult.
RECURSIVE ReadElems(_, _, _, _, _, _, _)
ReadElems(elems, i, b, c, f, ctx, min) ==
    IF i > Len(elems) THEN Ok(f, c)
    ELSE
        LET e == elems[i]
            r == IF e.k = "field" /\ e.role = "metabyte" THEN
                     LET m == ReadType(e.t, <<b[2]>>, 0, 0)
                     IN  [m EXCEPT !.c = c]
                 ELSE IF e.k = "field" /\ e.role = "sequence" THEN
                     LET q == ReadType(e.t, b, 2, 0)
                     IN  [q EXCEPT !.c = c]
                 ELSE IF e.k = "field" THEN ReadType(e.t, b, c, 0)
                 ELSE IF e.k = "context" THEN ReadType(e.t, b, c, ctx[e.role])
                 ELSE IF e.k = "let" THEN ReadType(e.t, b, c, 0)
                 ELSE IF e.k = "unused" THEN Skip(b, c, e.n)
                 ELSE IF e.k = "pad" THEN Skip(b, c, pad(Len(f[e.role])))
                 ELSE Skip(b, c, IF c < min THEN min - c ELSE 0)
        IN  IF r.kind # "Ok" THEN r
            ELSE IF e.k \in {"field", "context"}
                 THEN ReadElems(elems, i + 1, b, r.c, (e.name :> r.val) @@ f, ctx, min)
            ELSE IF e.k = "let"
                 THEN ReadElems(elems, i + 1, b, r.c, f, (e.name :> r.val) @@ ctx, min)
            ELSE ReadElems(elems, i + 1, b, r.c, f, ctx, min)

\* Decodes one request frame from the start of b: the major opcode selects
\* the request, the metabyte and the length follow, then the body.
Request_read_from(b) ==
    IF Len(b) < RequestHeader THEN Err("Truncated", 0)
    ELSE IF \A m \in Requests : m.opcode # b[1] THEN Err("UnknownOpcode", 1)
    ELSE
        LET m == CHOOSE q \in Requests : q.opcode = b[1]
            r == ReadElems(m.elems, 1, b, RequestHeader, <<>>, <<>>, 0)
        IN  IF r.kind = "Ok" THEN Ok([msg |-> m.name, f |-> r.val], r.c) ELSE r

(* ------------------------------------------------------------------ *)
(* Request codec session                                               *)
(* ------------------------------------------------------------------ *)

\* Longest short extension name.
MaxNameLen == 4
\* Names longer than a u16 can count: 65536 .. 65536 + LongNameSpan bytes.
LongNameSpan == 1
\* Bytes appended after a frame by the rest of the stream.
MaxTrailing == 2
\* Names of MaxNameLen + 1 .. MaxNameLen + MediumNameSpan bytes, one per length.
MediumNameSpan == 4

NameBytes == {0, 65, 255}

RECURSIVE SeqsUpTo(_, _)
SeqsUpTo(S, n) ==
    IF n = 0 THEN {<<>>}
    ELSE LET shorter == SeqsUpTo(S, n - 1)
         IN  shorter \cup {Append(q, x) : q \in {p \in shorter : Len(p) = n - 1}, x \in S}

ShortNames == SeqsUpTo(NameBytes, MaxNameLen)
LongNames == {[i \in 1..n |-> 65] : n \in 65536..(65536 + LongNameSpan)}
MediumNames ==
    {[i \in 1..n |-> 64 + i] : n \in (MaxNameLen + 1)..(MaxNameLen + MediumNameSpan)}
Names == ShortNames \cup MediumNames \cup LongNames

WindowIds == {0, 1, 16909060, 2147483647}
DelaySample == {Default, Disabled, Enabled(0), Enabled(1), Enabled(30), Enabled(255)}
Toggles == {"Disabled", "Enabled", "Default"}

RequestValues ==
    {[msg |-> "ChangeSavedWindows", f |-> [change_mode |-> cm, window |-> w]] :
        cm \in {"Add", "Remove"}, w \in WindowIds}
    \cup {[msg |-> "QueryExtension", f |-> [name |-> nm]] : nm \in Names}
    \cup {[msg |-> n, f |-> <<>>] :
            n \in {"ListExtensions", "GetScreenSaver", "EnableBigRequests"}}
    \cup {[msg |-> "SetScreenSaver",
           f |-> [timeout |-> t, interval |-> i, prefer_blanking |-> pb,
                  allow_expose_events |-> ae]] :
            t \in DelaySample, i \in DelaySample, pb \in Toggles, ae \in Toggles}

\* A client encodes a request into an empty buffer.
WriteRequest ==
    /\ op = "idle"
    /\ \E v \in RequestValues :
        /\ value' = v
        /\ buf' = Request_write_to(v)
    /\ ty' = "Request"
    /\ op' = "written"
    /\ cursor' = 0
    /\ result' = NoResult

\* More of the stream follows the frame in the buffer.
AppendTrailing ==
    /\ ty = "Request"
    /\ op = "written"
    /\ Len(buf) <= RequestHeader + 4 + MaxNameLen + 4
    /\ \E t \in SeqsUpTo({0, 255}, MaxTrailing) :
        /\ t # <<>>
        /\ buf' = buf \o t
    /\ op' = "followed"
    /\ UNCHANGED <<ty, value, cursor, result>>

\* The server decodes the frame at the start of the buffer.
ReadRequest ==
    /\ ty = "Request"
    /\ op \in {"written", "followed"}
    /\ result' = Request_read_from(buf)
    /\ cursor' = result'.c
    /\ op' = "read"
    /\ UNCHANGED <<ty, value, buf>>

NextRequest ==
    \/ WriteRequest
    \/ AppendTrailing
    \/ ReadRequest

SpecRequest == Init /\ [][NextRequest]_vars

(* ------------------------------------------------------------------ *)
(* Events of src/x11/event.rs                                          *)
(* ------------------------------------------------------------------ *)

KeyPress ==
    [name |-> "KeyPress", code |-> 2,
     elems |-> <<Sequence("sequence", "u16"),
                 Metabyte("keycode", "Keycode"),
                 Field("time", "Timestamp"),
                 Field("root", "Window"),
                 Field("event_window", "Window"),
                 Field("child_window", "OptionWindow"),
                 Field("root_coords", "Point"),
                 Field("event_coords", "Point"),
                 Field("modifiers", "ModifierMask"),
                 Field("same_screen", "bool"),
                 Unused(1)>>]

KeyRelease ==
    [name |-> "KeyRelease", code |-> 3,
     elems |-> <<Sequence("sequence", "u16"),
                 Metabyte("keycode", "Keycode"),
                 Field("time", "Timestamp"),
                 Field("root", "Window"),
                 Field("event_window", "Window"),
                 Field("child_window", "OptionWindow"),
                 Field("root_coords", "Point"),
                 Field("event_coords", "Point"),
                 Field("modifiers", "ModifierMask"),
                 Field("same_screen", "bool"),
                 Unused(1)>>]

ButtonPress ==
    [name |-> "ButtonPress", code |-> 4,
     elems |-> <<Sequence("sequence", "u16"),
                 Metabyte("button", "Button"),
                 Field("time", "Timestamp"),
                 Field("root", "Window"),
                 Field("event_window", "Window"),
                 Field("child_window", "OptionWindow"),
                 Field("root_coords", "Point"),
                 Field("event_coords", "Point"),
                 Field("modifiers", "ModifierMask"),
                 Field("same_screen", "bool"),
                 Unused(1)>>]

ButtonRelease ==
    [name |-> "ButtonRelease", code |-> 5,
     elems |-> <<Sequence("sequence", "u16"),
                 Metabyte("button", "Button"),
                 Field("time", "Timestamp"),
                 Field("root", "Window"),
                 Field("event_window", "Window"),
                 Field("child_window", "OptionWindow"),
                 Field("root_coords", "Point"),
                 Field("event_coords", "Point"),
                 Field("modifiers", "ModifierMask"),
                 Field("same_screen", "bool"),
                 Unused(1)>>]

Motion ==
    [name |-> "Motion", code |-> 6,
     elems |-> <<Sequence("sequence", "u16"),
                 Metabyte("notification_type", "MotionNotificationType"),
                 Field("time", "Timestamp"),
                 Field("root", "Window"),
                 Field("event_window", "Window"),
                 Field("child_window", "OptionWindow"),
                 Field("root_coords", "Point"),
                 Field("event_coords", "Point"),
                 Field("modifiers", "ModifierMask"),
                 Field("same_screen", "bool"),
                 Unused(1)>>]

EnterWindow ==
    [name |-> "EnterWindow", code |-> 7,
     elems |-> <<Sequence("sequence", "u16"),
                 Metabyte("detail", "EnterLeaveDetail"),
                 Field("time", "Timestamp"),
                 Field("root", "Window"),
                 Field("event_window", "Window"),
                 Field("child_window", "OptionWindow"),
                 Field("root_coords", "Point"),
                 Field("event_coords", "Point"),
                 Field("modifiers", "ModifierMask"),
                 Field("grab_mode", "GrabMode"),
                 Field("mask", "EnterLeaveMask")>>]

LeaveWindow ==
    [name |-> "LeaveWindow", code |-> 8,
     elems |-> <<Sequence("sequence", "u16"),
                 Metabyte("detail", "EnterLeaveDetail"),
                 Field("time", "Timestamp"),
                 Field("root", "Window"),
                 Field("event_window", "Window"),
                 Field("child_window", "OptionWindow"),
                 Field("root_coords", "Point"),
                 Field("event_coords", "Point"),
                 Field("modifiers", "ModifierMask"),
                 Field("grab_mode", "GrabMode"),
                 Field("mask", "EnterLeaveMask")>>]

WindowFocused ==
    [name |-> "WindowFocused", code |-> 9,
     elems |-> <<Sequence("sequence", "u16"),
                 Metabyte("detail", "FocusDetail"),
                 Field("window", "Window"),
                 Field("grab_mode", "FocusGrabMode"),
                 UnusedInfer>>]

WindowUnfocused ==
    [name |-> "WindowUnfocused", code |-> 10,
     elems |-> <<Sequence("sequence", "u16"),
                 Metabyte("detail", "FocusDetail"),
                 Field("window", "Window"),
                 Field("grab_mode", "FocusGrabMode"),
                 UnusedInfer>>]

\* Keymap with a sequence field declared before the keys.
Keymap_WithSequence ==
    [name |-> "Keymap", code |-> 11,
     elems |-> <<Sequence("sequence", "u16"),
                 Field("keys", "Keycode31")>>]

Keymap ==
    [name |-> "Keymap", code |-> 11,
     elems |-> <<Field("keys", "Keycode31")>>]

Expose ==
    [name |-> "Expose", code |-> 12,
     elems |-> <<Sequence("sequence", "u16"),
                 Field("window", "Window"),
                 Field("x", "u16"),
                 Field("y", "u16"),
                 Field("width", "u16"),
                 Field("height", "u16"),
                 Field("count", "u16"),
                 UnusedInfer>>]

GraphicsExposure ==
    [name |-> "GraphicsExposure", code |-> 13,
     elems |-> <<Sequence("sequence", "u16"),
                 Field("drawable", "Drawable"),
                 Field("x", "u16"),
                 Field("y", "u16"),
                 Field("width", "u16"),
                 Field("height", "u16"),
                 Field("minor_opcode", "u16"),
                 Field("count", "u16"),
                 Field("major_opcode", "u8"),
                 UnusedInfer>>]

NoExposure ==
    [name |-> "NoExposure", code |-> 14,
     elems |-> <<Sequence("sequence", "u16"),
                 Field("drawable", "Drawable"),
                 Field("minor_opcode", "u16"),
                 Field("major_opcode", "u8"),
                 UnusedInfer>>]

VisibilityChanged ==
    [name |-> "VisibilityChanged", code |-> 15,
     elems |-> <<Sequence("sequence", "u16"),
                 Field("window", "Window"),
                 Field("visibility", "Visibility"),
                 UnusedInfer>>]

WindowCreated ==
    [name |-> "WindowCreated", code |-> 16,
     elems |-> <<Sequence("sequence", "u16"),
                 Field("parent", "Window"),
                 Field("window", "Window"),
                 Field("x", "i16"),
                 Field("y", "i16"),
                 Field("width", "u16"),
                 Field("height", "u16"),
                 Field("border_width", "u16"),
                 Field("override_redirect", "bool"),
                 UnusedInfer>>]

WindowDestroyed ==
    [name |-> "WindowDestroyed", code |-> 17,
     elems |-> <<Sequence("sequence", "u16"),
                 Field("window", "Window"),
                 Field("destroyed_window", "Window"),
                 UnusedInfer>>]

WindowUnmapped ==
    [name |-> "WindowUnmapped", code |-> 18,
     elems |-> <<Sequence("sequence", "u16"),
                 Field("window", "Window"),
                 Field("unmapped_window", "Window"),
                 Field("from_configure", "bool"),
                 UnusedInfer>>]

WindowMapped ==
    [name |-> "WindowMapped", code |-> 19,
     elems |-> <<Sequence("sequence", "u16"),
                 Field("window", "Window"),
                 Field("mapped_window", "Window"),
                 Field("override_redirect", "bool"),
                 UnusedInfer>>]

MapRequest ==
    [name |-> "MapRequest", code |-> 20,
     elems |-> <<Sequence("sequence", "u16"),
                 Field("parent", "Window"),
                 Field("window", "Window"),
                 UnusedInfer>>]

WindowReparented ==
    [name |-> "WindowReparented", code |-> 21,
     elems |-> <<Sequence("sequence", "u16"),
                 Field("window", "Window"),
                 Field("reparented_window", "Window"),
                 Field("parent", "Window"),
                 Field("x", "i16"),
                 Field("y", "i16"),
                 Field("override_redirect", "bool"),
                 UnusedInfer>>]

WindowConfigured ==
    [name |-> "WindowConfigured", code |-> 22,
     elems |-> <<Sequence("sequence", "u16"),
                 Field("event", "Window"),
                 Field("window", "Window"),
                 Field("above_sibling", "OptionWindow"),
                 Field("x", "i16"),
                 Field("y", "i16"),
                 Field("width", "u16"),
                 Field("height", "u16"),
                 Field("border_width", "u16"),
                 Field("override_redirect", "bool"),
                 UnusedInfer>>]

ConfigureRequest ==
    [name |-> "ConfigureRequest", code |-> 23,
     elems |-> <<Sequence("sequence", "u16"),
                 Metabyte("stack_mode", "StackMode"),
                 Field("parent", "Window"),
                 Field("window", "Window"),
                 Field("sibling", "OptionWindow"),
                 Field("x", "i16"),
                 Field("y", "i16"),
                 Field("width", "u16"),
                 Field("height", "u16"),
                 Field("mask", "ConfigureWindowMask"),
                 UnusedInfer>>]

GravityChanged ==
    [name |-> "GravityChanged", code |-> 24,
     elems |-> <<Sequence("sequence", "u16"),
                 Field("event", "Window"),
                 Field("window", "Window"),
                 Field("x", "i16"),
                 Field("y", "i16"),
                 UnusedInfer>>]

WindowResized ==
    [name |-> "WindowResized", code |-> 25,
     elems |-> <<Sequence("sequence", "u16"),
                 Field("window", "Window"),
                 Field("width", "u16"),
                 Field("height", "u16"),
                 UnusedInfer>>]

\* WindowCirculated with its `[_; 4]` declared as a window field.
WindowCirculated_UnusedWindowField ==
    [name |-> "WindowCirculated", code |-> 26,
     elems |-> <<Sequence("sequence", "u16"),
                 Field("event", "Window"),
                 Field("window", "Window"),
                 Field("unused", "Window"),
                 Field("placement", "Placement"),
                 UnusedInfer>>]

WindowCirculated ==
    [name |-> "WindowCirculated", code |-> 26,
     elems |-> <<Sequence("sequence", "u16"),
                 Field("event", "Window"),
                 Field("window", "Window"),
                 Unused(4),
                 Field("placement", "Placement"),
                 UnusedInfer>>]

CirculateRequest ==
    [name |-> "CirculateRequest", code |-> 27,
     elems |-> <<Sequence("sequence", "u16"),
                 Field("event", "Window"),
                 Field("window", "Window"),
                 Unused(4),
                 Field("placement", "Placement"),
                 UnusedInfer>>]

PropertyChanged ==
    [name |-> "PropertyChanged", code |-> 28,
     elems |-> <<Sequence("sequence", "u16"),
                 Field("window", "Window"),
                 Field("property", "Atom"),
                 Field("time", "Timestamp"),
                 Field("change", "PropertyChange"),
                 UnusedInfer>>]

SelectionClear ==
    [name |-> "SelectionClear", code |-> 29,
     elems |-> <<Sequence("sequence", "u16"),
                 Field("time", "Timestamp"),
                 Field("owner", "Window"),
                 Field("selection", "Atom"),
                 UnusedInfer>>]

SelectionRequest ==
    [name |-> "SelectionRequest", code |-> 30,
     elems |-> <<Sequence("sequence", "u16"),
                 Field("time", "CurrentableTime"),
                 Field("owner", "Window"),
                 Field("requestor", "Window"),
                 Field("selection", "Atom"),
                 Field("target", "Atom"),
                 Field("property", "OptionAtom"),
                 UnusedInfer>>]

SelectionNotify ==
    [name |-> "SelectionNotify", code |-> 31,
     elems |-> <<Sequence("sequence", "u16"),
                 Field("time", "CurrentableTime"),
                 Field("requestor", "Window"),
                 Field("selection", "Atom"),
                 Field("target", "Atom"),
                 Field("property", "OptionAtom"),
                 UnusedInfer>>]

ColormapNotify ==
    [name |-> "ColormapNotify", code |-> 32,
     elems |-> <<Sequence("sequence", "u16"),
                 Field("window", "Window"),
                 Field("colormap", "OptionColormap")>>]

\* ClientMessage declared as Event(34), the code of MappingNotify.
ClientMessage_Code34 ==
    [name |-> "ClientMessage", code |-> 34,
     elems |-> <<Sequence("sequence", "u16"),
                 Metabyte("format", "u8"),
                 Field("window", "Window"),
                 Field("type", "Atom"),
                 Field("data", "u8x20")>>]

ClientMessage ==
    [name |-> "ClientMessage", code |-> 33,
     elems |-> <<Sequence("sequence", "u16"),
                 Metabyte("format", "u8"),
                 Field("window", "Window"),
                 Field("type", "Atom"),
                 Field("data", "u8x20")>>]

\* MappingNotify declared as Event(35).
MappingNotify_Code35 ==
    [name |-> "MappingNotify", code |-> 35,
     elems |-> <<Sequence("sequence", "u16"),
                 Field("request", "MappingNotifyRequest"),
                 Field("first_keycode", "Keycode"),
                 Field("count", "u8"),
                 UnusedInfer>>]

MappingNotify ==
    [name |-> "MappingNotify", code |-> 34,
     elems |-> <<Sequence("sequence", "u16"),
                 Field("request", "MappingNotifyRequest"),
                 Field("first_keycode", "Keycode"),
                 Field("count", "u8"),
                 UnusedInfer>>]

Events ==
    {KeyPress, KeyRelease, ButtonPress, ButtonRelease, Motion, EnterWindow,
     LeaveWindow, WindowFocused, WindowUnfocused, Keymap, Expose,
     GraphicsExposure, NoExposure, VisibilityChanged, WindowCreated,
     WindowDestroyed, WindowUnmapped, WindowMapped, MapRequest,
     WindowReparented, WindowConfigured, ConfigureRequest, GravityChanged,
     WindowResized, WindowCirculated, CirculateRequest, PropertyChanged,
     SelectionClear, SelectionRequest, SelectionNotify, ColormapNotify,
     ClientMessage, MappingNotify}

EventNamed(n) == CHOOSE m \in Events : m.name = n

HasRole(elems, role) ==
    \E i \in 1..Len(elems) : elems[i].k = "field" /\ elems[i].role = role

\* The #[sequence] field's bytes, at offsets 2-3 of the frame.
SequenceOf(elems, f) ==
    LET e == elems[CHOOSE i \in 1..Len(elems) :
                       elems[i].k = "field" /\ elems[i].role = "sequence"]
    IN  TypeBytes(e.t, f[e.name])

\* Bytes of an event before its body: the code, then the metabyte and the
\* sequence number when the event declares a #[sequence] field; an event
\* without one carries data from offset 1.
EventHeader(elems) ==
    IF HasRole(elems, "sequence") THEN 4
    ELSE IF HasRole(elems, "metabyte") THEN 2 ELSE 1

\* <E as X11Size>::x11_size of an event value v.
Event_x11_size(v) ==
    LET m == EventNamed(v.msg)
    IN  ElemsSize(m.elems, v.f, 1, EventHeader(m.elems), MinEventLength)

\* <E as Writable>::write_to of an event value v.
Event_write_to(v) ==
    LET m == EventNamed(v.msg)
        head == <<m.code>>
                \o (IF EventHeader(m.elems) >= 2 THEN MetabyteOf(m.elems, v.f) ELSE <<>>)
                \o (IF EventHeader(m.elems) = 4 THEN SequenceOf(m.elems, v.f) ELSE <<>>)
    IN  WriteElems(m.elems, v.f, 1, head, MinEventLength)

\* Decodes one event frame from the start of b: the code, with the
\* synthetic-event bit masked off, selects the event.
Event_read_from(b) ==
    IF Len(b) < 1 THEN Err("Truncated", 0)
    ELSE IF \A m \in Events : m.code # b[1] % 128 THEN Err("UnknownOpcode", 1)
    ELSE
        LET m == CHOOSE q \in Events : q.code = b[1] % 128
            r == IF Len(b) < EventHeader(m.elems) THEN Err("Truncated", 1)
                 ELSE ReadElems(m.elems, 1, b, EventHeader(m.elems), <<>>, <<>>,
                                MinEventLength)
        IN  IF r.kind = "Ok" THEN Ok([msg |-> m.name, f |-> r.val], r.c) ELSE r

(* ------------------------------------------------------------------ *)
(* Event codec session                                                 *)
(* ------------------------------------------------------------------ *)

\* Number of sample values per field: sample g of 0..MaxSample.
MaxSample == 2

\* Sample g of the values of wire type t: 0 is the smallest value, 1 the
\* largest and later samples lie in between.
FieldSample(t, g) ==
    IF IsEnum(t) THEN
        EnumVariants[t][IF g = 0 THEN 1
                        ELSE IF g = 1 THEN Len(EnumVariants[t])
                        ELSE 1 + (g % Len(EnumVariants[t]))]
    ELSE IF IsArray(t) THEN
        [i \in 1..ArrayLen[t] |-> IF g = 0 THEN 0 ELSE IF g = 1 THEN 255 ELSE (i + g) % 256]
    ELSE IF t = "bool" THEN (IF g = 0 THEN 0 ELSE 1)
    ELSE IF t = "EnterLeaveMask" THEN (IF g = 0 THEN 0 ELSE IF g = 1 THEN 3 ELSE 1 + (g % 2))
    ELSE IF IntWidth[t] = 1 THEN (IF g = 0 THEN 0 ELSE IF g = 1 THEN 255 ELSE g)
    ELSE IF IntWidth[t] = 2 THEN (IF g = 0 THEN 0 ELSE IF g = 1 THEN 65535 ELSE 256 + g)
    ELSE (IF g = 0 THEN 0 ELSE IF g = 1 THEN 2147483647 ELSE 16909060 + g)

FieldNames(elems) == {elems[i].name : i \in {j \in 1..Len(elems) : elems[j].k = "field"}}
FieldType(elems, n) ==
    elems[CHOOSE i \in 1..Len(elems) : elems[i].k = "field" /\ elems[i].name = n].t

EventValue(m, g) ==
    [msg |-> m.name,
     f |-> [n \in FieldNames(m.elems) |-> FieldSample(FieldType(m.elems, n), g)]]

\* The server encodes an event into an empty buffer.
WriteEvent ==
    /\ op = "idle"
    /\ \E m \in Events, g \in 0..MaxSample :
        /\ value' = EventValue(m, g)
        /\ buf' = Event_write_to(EventValue(m, g))
    /\ ty' = "Event"
    /\ op' = "written"
    /\ cursor' = 0
    /\ result' = NoResult

\* The client decodes the frame at the start of the buffer.
ReadEvent ==
    /\ ty = "Event"
    /\ op = "written"
    /\ result' = Event_read_from(buf)
    /\ cursor' = result'.c
    /\ op' = "read"
    /\ UNCHANGED <<ty, value, buf>>

NextEvent ==
    \/ WriteEvent
    \/ ReadEvent

SpecEvent == Init /\ [][NextEvent]_vars

(* ------------------------------------------------------------------ *)
(* Dispatch on a stream of frames                                      *)
(* ------------------------------------------------------------------ *)

\* The bytes that follow the leading byte of a frame of unknown content
\* (four of them read as one field stay below 2^31).
FrameFill == {0, 127}

\* Two event frames arrive back to back: 32 bytes with any leading byte,
\* then the encoding of an event of the catalogue.
ReceiveEventStream ==
    /\ op = "idle"
    /\ \E lead \in Byte, fill \in FrameFill, m \in Events, g \in 0..MaxSample :
        /\ value' = EventValue(m, g)
        /\ buf' = <<lead>> \o [i \in 1..(MinEventLength - 1) |-> fill]
                      \o Event_write_to(EventValue(m, g))
    /\ ty' = "Stream"
    /\ op' = "stream"
    /\ cursor' = 0
    /\ result' = NoResult

\* The client decodes the frame at the cursor and moves on to the next
\* frame boundary, whatever the outcome.
DecodeFrame ==
    /\ ty = "Stream"
    /\ op \in {"stream", "decoded_first"}
    /\ result' = Event_read_from(SubSeq(buf, cursor + 1, Len(buf)))
    /\ cursor' = cursor + MinEventLength
    /\ op' = IF op = "stream" THEN "decoded_first" ELSE "decoded_second"
    /\ UNCHANGED <<ty, value, buf>>

\* A request header arrives with any major opcode.
ReceiveRequestHeader ==
    /\ op = "idle"
    /\ \E opcode \in Byte : buf' = <<opcode, 0, 0, 1>>
    /\ ty' = "Opcode"
    /\ op' = "received"
    /\ value' = NoValue
    /\ cursor' = 0
    /\ result' = NoResult

\* The server selects the request decoder for the header.
DispatchRequest ==
    /\ ty = "Opcode"
    /\ op = "received"
    /\ result' = Request_read_from(buf)
    /\ cursor' = result'.c
    /\ op' = "read"
    /\ UNCHANGED <<ty, value, buf>>

NextStream ==
    \/ ReceiveEventStream
    \/ DecodeFrame
    \/ ReceiveRequestHeader
    \/ DispatchRequest

SpecStream == Init /\ [][NextStream]_vars

(* ------------------------------------------------------------------ *)
(* Unused bytes of a frame                                             *)
(* ------------------------------------------------------------------ *)

\* Positions, counted from 1, of the bytes that the unused elements i.. of a
\* declaration take in the frame of the value with fields f.
RECURSIVE UnusedSpans(_, _, _, _, _)
UnusedSpans(elems, f, i, before, min) ==
    IF i > Len(elems) THEN {}
    ELSE IF InHeader(elems[i]) THEN UnusedSpans(elems, f, i + 1, before, min)
    ELSE
        LET n == ElemSize(elems[i], f, before, min)
        IN  (IF elems[i].k \in {"unused", "pad", "infer"}
             THEN (before + 1)..(before + n) ELSE {})
            \cup UnusedSpans(elems, f, i + 1, before + n, min)

Request_unused(v) ==
    UnusedSpans(RequestNamed(v.msg).elems, v.f, 1, RequestHeader, 0)

Event_unused(v) ==
    LET m == EventNamed(v.msg)
    IN  UnusedSpans(m.elems, v.f, 1, EventHeader(m.elems), MinEventLength)

\* The values a sender may leave in an unused byte.
ScribbleBytes == {1, 255}

\* A frame arrives that differs from the written one in one unused byte, or
\* in all of them.
ScribblePadding ==
    /\ ty \in {"Request", "Event"}
    /\ op = "written"
    /\ LET all == IF ty = "Request" THEN Request_unused(value)
                  ELSE Event_unused(value)
       IN  \E S \in {all} \cup {{p} : p \in all}, x \in ScribbleBytes :
            /\ S # {}
            /\ buf' = [i \in 1..Len(buf) |-> IF i \in S THEN x ELSE buf[i]]
    /\ op' = "scribbled"
    /\ UNCHANGED <<ty, value, cursor, result>>

\* The receiver decodes the frame.
ReadScribbled ==
    /\ ty \in {"Request", "Event"}
    /\ op = "scribbled"
    /\ result' = IF ty = "Request" THEN Request_read_from(buf)
                 ELSE Event_read_from(buf)
    /\ cursor' = result'.c
    /\ op' = "read_scribbled"
    /\ UNCHANGED <<ty, value, buf>>

NextPadding ==
    \/ WriteRequest
    \/ WriteEvent
    \/ ScribblePadding
    \/ ReadScribbled

SpecPadding == Init /\ [][NextPadding]_vars

(* ------------------------------------------------------------------ *)
(* Field codec session: one value of an enum or of a bitmask           *)
(* ------------------------------------------------------------------ *)

\* A variant of an enum is encoded into an empty buffer.
WriteEnum ==
    /\ op = "idle"
    /\ \E t \in DOMAIN EnumVariants :
        \E i \in 1..Len(EnumVariants[t]) :
            /\ value' = [enum |-> t, v |-> EnumVariants[t][i]]
            /\ buf' = TypeBytes(t, EnumVariants[t][i])
    /\ ty' = "Enum"
    /\ op' = "written"
    /\ cursor' = 0
    /\ result' = NoResult

\* One byte arrives where an enum is expected.
ReceiveEnum ==
    /\ op = "idle"
    /\ \E t \in DOMAIN EnumVariants, tag \in Byte :
        /\ value' = [enum |-> t, v |-> NoValue]
        /\ buf' = <<tag>>
    /\ ty' = "Enum"
    /\ op' = "received"
    /\ cursor' = 0
    /\ result' = NoResult

\* The enum is decoded from the start of the buffer.
ReadEnum ==
    /\ ty = "Enum"
    /\ op \in {"written", "received"}
    /\ result' = ReadType(value.enum, buf, 0, 0)
    /\ cursor' = result'.c
    /\ op' = IF op = "written" THEN "read_back" ELSE "read"
    /\ UNCHANGED <<ty, value, buf>>

\* A mask is encoded into an empty buffer.
WriteMask ==
    /\ op = "idle"
    /\ \E t \in DOMAIN MaskFlags :
        \E m \in Masks(t) :
            /\ value' = [mask |-> t, v |-> m]
            /\ buf' = TypeBytes(t, m)
    /\ ty' = "Mask"
    /\ op' = "written"
    /\ cursor' = 0
    /\ result' = NoResult

\* One byte arrives where a mask is expected.
ReceiveMask ==
    /\ op = "idle"
    /\ \E t \in DOMAIN MaskFlags, x \in Byte :
        /\ value' = [mask |-> t, v |-> NoValue]
        /\ buf' = <<x>>
    /\ ty' = "Mask"
    /\ op' = "received"
    /\ cursor' = 0
    /\ result' = NoResult

\* The mask is decoded from the start of the buffer.
ReadMask ==
    /\ ty = "Mask"
    /\ op \in {"written", "received"}
    /\ result' = ReadType(value.mask, buf, 0, 0)
    /\ cursor' = result'.c
    /\ op' = IF op = "written" THEN "read_back" ELSE "read"
    /\ UNCHANGED <<ty, value, buf>>

NextField ==
    \/ WriteEnum
    \/ ReceiveEnum
    \/ ReadEnum
    \/ WriteMask
    \/ ReceiveMask
    \/ ReadMask

SpecField == Init /\ [][NextField]_vars

Next ==
    \/ NextDelay
    \/ NextRequest
    \/ NextEvent
    \/ NextStream
    \/ NextPadding
    \/ NextField

Spec == Init /\ [][Next]_vars

(* ------------------------------------------------------------------ *)
(* Properties of the Delay codec                                       *)
(* ------------------------------------------------------------------ *)

\* The 16-bit signed integer that the first two bytes of the buffer carry.
WireInt == AsI16(buf[1] * 256 + buf[2])

DelayRead == ty = "Delay" /\ op = "read"
DelayWritten == ty = "Delay" /\ op \in {"written", "read"} /\ value \in Delay

\* C1: every constructible Delay value, written with Delay::write_to and read
\* back with Delay::read_from, comes back equal to itself.
C1_DelayRoundTrip ==
    (DelayRead /\ value \in Delay) => result = Ok(value, 2)

\* C2: an encoded Delay whose last byte was removed decodes to the Truncated
\* error, returned as a value: no panic and no successfully decoded value.
C2_TruncatedIsAnError ==
    (ty = "Delay" /\ op = "read_truncated")
        => (result.kind = "Err" /\ result.err = "Truncated")

\* C6: Default encodes to FF FF, Disabled to 00 00 and Enabled(30) to 1E 00
\* (low byte first), and those three byte pairs decode to Default, Disabled
\* and Enabled(30).
C6_DelayByteLayout ==
    /\ (DelayWritten /\ value = Default) => buf = <<255, 255>>
    /\ (DelayWritten /\ value = Disabled) => buf = <<0, 0>>
    /\ (DelayWritten /\ value = Enabled(30)) => buf = <<30, 0>>
    /\ (DelayRead /\ buf = <<255, 255>>) => result = Ok(Default, 2)
    /\ (DelayRead /\ buf = <<0, 0>>) => result = Ok(Disabled, 2)
    /\ (DelayRead /\ buf = <<30, 0>>) => result = Ok(Enabled(30), 2)

\* C7: Default always writes the integer -1 and Disabled writes 0; the
\* integers -1 and 0 always decode to Default and Disabled; no decode yields
\* Enabled with payload 0 and no Enabled value is written as -1 or 0.
C7_SentinelMapping ==
    /\ (DelayWritten /\ value = Default) => WireInt = -1
    /\ (DelayWritten /\ value = Disabled) => WireInt = 0
    /\ (DelayRead /\ WireInt = -1) => result = Ok(Default, 2)
    /\ (DelayRead /\ WireInt = 0) => result = Ok(Disabled, 2)
    /\ DelayRead => result.val # Enabled(0)
    /\ (DelayWritten /\ value.tag = "Enabled") => WireInt \notin {-1, 0}

\* C8: a 16-bit integer other than -1 and 0 decodes to Enabled(x) when x is
\* in 1..255 and to the FailedConversion error otherwise; an integer outside
\* the payload range never becomes an Enabled value.
C8_NarrowingFailure ==
    (DelayRead /\ WireInt \notin {-1, 0})
        => IF WireInt \in 1..255
           THEN result = Ok(Enabled(WireInt), 2)
           ELSE result.kind = "Err" /\ result.err = "FailedConversion"

\* The integer 256, one above the payload range, was refused.
C8_Witness ==
    /\ DelayRead
    /\ WireInt = 256
    /\ result.err = "FailedConversion"

(* ------------------------------------------------------------------ *)
(* Properties of the derived messages                                  *)
(* ------------------------------------------------------------------ *)

RequestWritten == ty = "Request" /\ op \in {"written", "followed"}
RequestRead == ty = "Request" /\ op = "read"
EventWritten == ty = "Event" /\ op = "written"
IsQueryExtension == ty = "Request" /\ value.msg = "QueryExtension"

\* The name_len field of a QueryExtension frame: the 16-bit integer at
\* offsets 4-5.
WireNameLen == BytesInt(buf, RequestHeader, 2)

\* C3: every event of the catalogue encodes to exactly 32 bytes.
C3_EventFrameIs32Bytes ==
    EventWritten => Len(buf) = 32

\* C4: the size x11_size reports equals the number of bytes the writer
\* emits: 2 for every Delay, header + 2 + 2 + len(name) + pad(name) for every
\* QueryExtension, and the frame length for every request and event.
C4_SizeAgreement ==
    /\ (ty = "Delay" /\ op = "written")
        => (x11_size(value) = 2 /\ Len(buf) = x11_size(value))
    /\ (ty = "Request" /\ op = "written") => Request_x11_size(value) = Len(buf)
    /\ (IsQueryExtension /\ op = "written")
        => Len(buf) = RequestHeader + 2 + 2 + Len(value.f.name)
                      + pad(Len(value.f.name))
    /\ EventWritten => Event_x11_size(value) = Len(buf)

\* A QueryExtension with a 3-byte name was written on 12 bytes.
C4_Witness ==
    /\ IsQueryExtension
    /\ op = "written"
    /\ Len(value.f.name) = 3
    /\ Len(buf) = 12

\* C5: the length of every encoded request is a multiple of 4 bytes.
C5_RequestAlignment ==
    (ty = "Request" /\ op = "written") => Len(buf) % 4 = 0

\* A QueryExtension with a 1-byte name and a SetScreenSaver fill whole words.
C5_Witness ==
    /\ ty = "Request"
    /\ op = "written"
    /\ \/ (value.msg = "QueryExtension" /\ Len(value.f.name) = 1 /\ Len(buf) = 12)
       \/ (value.msg = "SetScreenSaver" /\ Len(buf) = 12)

\* C9: decoding a QueryExtension frame whose name_len field holds N reads
\* exactly N bytes as the name and skips pad(N) bytes, whatever follows in
\* the buffer: the result is that of decoding the frame cut at that point.
C9_ContextDependency ==
    (RequestRead /\ buf[1] = QueryExtension.opcode)
        => LET N == WireNameLen
               end == RequestHeader + 4 + N + pad(N)
           IN  /\ result.kind = "Ok"
               /\ result.val.f.name = SubSeq(buf, RequestHeader + 5, RequestHeader + 4 + N)
               /\ result.c = end
               /\ result = Request_read_from(SubSeq(buf, 1, end))

\* A frame with a 3-byte name followed by 2 more bytes of the stream was
\* decoded: 12 bytes consumed of 14.
C9_Witness ==
    /\ RequestRead
    /\ buf[1] = QueryExtension.opcode
    /\ WireNameLen = 3
    /\ Len(buf) = 14
    /\ result.c = 12

\* C10: the name_len written for a QueryExtension equals the byte length of
\* its name, for every length a String8 can hold, and the decoder recovers
\* the same name.
C10_DerivedLengthPrefix ==
    /\ (IsQueryExtension /\ op = "written") => WireNameLen = Len(value.f.name)
    /\ (IsQueryExtension /\ op = "read")
        => (result.kind = "Ok" /\ result.val.f.name = value.f.name)

\* C11: for a name of N bytes the QueryExtension body is a 2-byte length
\* field equal to N, 2 zero bytes, the N name bytes and pad(N) zero bytes,
\* and its length is a multiple of 4.
C11_QueryExtensionLayout ==
    (IsQueryExtension /\ op = "written")
        => LET N == Len(value.f.name)
               body == SubSeq(buf, RequestHeader + 1, Len(buf))
           IN  /\ Len(body) = 4 + N + pad(N)
               /\ BytesInt(body, 0, 2) = N
               /\ SubSeq(body, 3, 4) = <<0, 0>>
               /\ SubSeq(body, 5, 4 + N) = value.f.name
               /\ SubSeq(body, 5 + N, Len(body)) = Zeros(pad(N))
               /\ Len(body) % 4 = 0

\* The length field of a request frame: the 16-bit integer at offsets 2-3.
WireLength == BytesInt(buf, 2, 2)

C13_MetabytePlacement ==
    (ty = "Request" /\ op = "written")
        => IF value.msg = "ChangeSavedWindows"
           THEN /\ buf[2] = (IF value.f.change_mode = "Add" THEN 0 ELSE 1)
                /\ SubSeq(buf, RequestHeader + 1, Len(buf)) = IntBytes(4, value.f.window)
           ELSE buf[2] = 0

\* A ChangeSavedWindows that removes a window was written with metabyte 1.
C13_Witness ==
    /\ ty = "Request"
    /\ op = "written"
    /\ value.msg = "ChangeSavedWindows"
    /\ value.f.change_mode = "Remove"
    /\ buf[2] = 1
    /\ Len(buf) = 8

(* ------------------------------------------------------------------ *)
(* Properties of dispatch                                              *)
(* ------------------------------------------------------------------ *)

EventCodes == 2..34
RequestOpcodes == {0, 6, 98, 99, 107, 108}
IsUnknownOpcode(r) == r.kind = "Err" /\ r.err = "UnknownOpcode"

\* C14: a frame whose leading byte (for events, without the synthetic bit)
\* is no code of the catalogue decodes to the UnknownOpcode error, which
\* consumes at most one frame, and the known frame that follows it in the
\* stream still decodes to the value it holds.
C14_UnknownOpcode ==
    /\ (ty = "Stream" /\ op = "decoded_first")
        => /\ IsUnknownOpcode(result) <=> (buf[1] % 128) \notin EventCodes
           /\ IsUnknownOpcode(result) => result.c <= MinEventLength
    /\ (ty = "Stream" /\ op = "decoded_second")
        => /\ result.kind = "Ok"
           /\ result.val = value
           /\ result = Event_read_from(Event_write_to(value))
    /\ (ty = "Opcode" /\ op = "read")
        => /\ IsUnknownOpcode(result) <=> buf[1] \notin RequestOpcodes
           /\ IsUnknownOpcode(result) => result.c <= RequestHeader

\* After a first frame with the unassigned code 1 and the synthetic bit, the
\* ClientMessage that followed it was decoded.
C14_Witness ==
    /\ ty = "Stream"
    /\ op = "decoded_second"
    /\ buf[1] = 129
    /\ value.msg = "ClientMessage"
    /\ result.kind = "Ok"
    /\ result.val = value

\* C15: the 33 events carry the codes 2..34, one each, and the six requests
\* the major opcodes 0, 6, 98, 99, 107, 108, one each; the code that leads a
\* written event belongs to that event alone, and reading the frame yields a
\* value of the event that was written.
C15_OpcodeUniqueness ==
    /\ \A m, q \in Events : m.code = q.code => m = q
    /\ {m.code : m \in Events} = EventCodes
    /\ Cardinality({m.name : m \in Events}) = 33
    /\ \A m, q \in Requests : m.opcode = q.opcode => m = q
    /\ {m.opcode : m \in Requests} = RequestOpcodes
    /\ Cardinality({m.name : m \in Requests}) = 6
    /\ EventWritten
        => \A m \in Events : m.code = buf[1] => m.name = value.msg
    /\ (ty = "Event" /\ op = "read" /\ result.kind = "Ok")
        => result.val.msg = value.msg

\* A MappingNotify, the last code of the catalogue, was written with code 34
\* and read back as a MappingNotify.
C15_Witness ==
    /\ ty = "Event"
    /\ op = "read"
    /\ value.msg = "MappingNotify"
    /\ buf[1] = 34
    /\ result.kind = "Ok"
    /\ result.val.msg = "MappingNotify"

\* The positions of the elements of a declaration that carry a role.
WithRole(elems, role) == {i \in 1..Len(elems) : elems[i].role = role}

\* C16: every event but Keymap declares exactly one sequence field, Keymap
\* declares none, and no event declares more than one metabyte field; a
\* written event other than Keymap holds its sequence number in the third
\* and fourth byte of the frame, and a written Keymap is the code byte
\* followed directly by the 31 keycode bytes.
C16_SequencePlacement ==
    /\ \A m \in Events :
        /\ Cardinality(WithRole(m.elems, "sequence"))
             = (IF m.name = "Keymap" THEN 0 ELSE 1)
        /\ Cardinality(WithRole(m.elems, "metabyte")) <= 1
    /\ (EventWritten /\ value.msg # "Keymap")
        => /\ Len(buf) >= 4
           /\ BytesInt(buf, 2, 2) = value.f.sequence
    /\ (EventWritten /\ value.msg = "Keymap")
        => /\ buf = <<11>> \o value.f.keys
           /\ Len(buf) = 32

\* A WindowFocused, which declares a metabyte next to its sequence field,
\* was written with sequence number 258 in the third and fourth byte.
C16_Witness ==
    /\ EventWritten
    /\ value.msg = "WindowFocused"
    /\ value.f.sequence = 258
    /\ SubSeq(buf, 3, 4) = <<1, 2>>

\* A Keymap was written: 32 bytes, no sequence number among them.
C16_KeymapWitness ==
    /\ EventWritten
    /\ value.msg = "Keymap"
    /\ Len(value.f.keys) = 31
    /\ SubSeq(buf, 2, 32) = value.f.keys

(* ------------------------------------------------------------------ *)
(* Properties of single fields                                         *)
(* ------------------------------------------------------------------ *)

IsInvalidDiscriminant(r) == r.kind = "Err" /\ r.err = "InvalidDiscriminant"

\* The number of tags that decode to a variant.
DefinedTags(t) ==
    IF t \in {"AddOrRemove", "Placement"} THEN 2
    ELSE IF t = "EnterLeaveDetail" THEN 5
    ELSE IF t = "FocusDetail" THEN 8
    ELSE Len(EnumVariants[t])

\* C17: a tag outside the defined set of an enum decodes to the
\* InvalidDiscriminant error and never to a variant (for AddOrRemove and
\* Placement every tag but 0 and 1, for EnterLeaveDetail every tag above 4,
\* for FocusDetail every tag above 7); a tag inside it decodes to the variant
\* declared at that position, counted from 0, and a variant encodes as the one
\* byte that holds its position.
C17_InvalidDiscriminant ==
    /\ (ty = "Enum" /\ op \in {"read", "read_back"})
        => IF buf[1] >= DefinedTags(value.enum)
           THEN IsInvalidDiscriminant(result)
           ELSE result = Ok(EnumVariants[value.enum][buf[1] + 1], 1)
    /\ (ty = "Enum" /\ op = "read_back")
        => result = Ok(value.v, 1)
    /\ (ty = "Enum" /\ op = "written")
        => /\ Len(buf) = 1
           /\ buf[1] < Len(EnumVariants[value.enum])
           /\ EnumVariants[value.enum][buf[1] + 1] = value.v
    /\ \A t \in DOMAIN EnumVariants :
        \A i, j \in 1..Len(EnumVariants[t]) :
            EnumVariants[t][i] = EnumVariants[t][j] => i = j

\* The tag 5, one past the last variant of EnterLeaveDetail, was refused.
C17_Witness ==
    /\ ty = "Enum"
    /\ op = "read"
    /\ value.enum = "EnterLeaveDetail"
    /\ buf = <<5>>
    /\ IsInvalidDiscriminant(result)

(* ------------------------------------------------------------------ *)
(* Properties of unused bytes                                          *)
(* ------------------------------------------------------------------ *)

IsFrame == ty \in {"Request", "Event"}
UnusedBytes == IF ty = "Request" THEN Request_unused(value) ELSE Event_unused(value)
CleanFrame == IF ty = "Request" THEN Request_write_to(value) ELSE Event_write_to(value)
CleanResult == IF ty = "Request" THEN Request_read_from(CleanFrame)
               ELSE Event_read_from(CleanFrame)

\* C18: every unused byte of a written frame is zero (for QueryExtension the
\* 2 bytes after the length and the bytes after the name, for SetScreenSaver
\* the last 2 bytes, for WindowCirculated the 4 bytes before the placement and
\* the bytes after it up to 32), and a frame that differs from the written
\* one in unused bytes only decodes to the same result, with the same number
\* of bytes consumed.
C18_PaddingOpaque ==
    /\ (IsFrame /\ op = "written")
        => \A p \in UnusedBytes : buf[p] = 0
    /\ (IsFrame /\ op = "written" /\ value.msg = "QueryExtension")
        => LET N == Len(value.f.name)
           IN  UnusedBytes = {7, 8} \cup ((8 + N + 1)..(8 + N + pad(N)))
    /\ (IsFrame /\ op = "written" /\ value.msg = "SetScreenSaver")
        => UnusedBytes = {11, 12}
    /\ (IsFrame /\ op = "written" /\ value.msg = "WindowCirculated")
        => UnusedBytes = (13..16) \cup (18..32)
    /\ (IsFrame /\ op = "read_scribbled")
        => /\ result = CleanResult
           /\ cursor = CleanResult.c
           /\ Len(buf) = Len(CleanFrame)

\* A WindowCirculated whose unused bytes all hold 255 was decoded to the
\* value that was written, all 32 bytes consumed.
C18_Witness ==
    /\ ty = "Event"
    /\ op = "read_scribbled"
    /\ value.msg = "WindowCirculated"
    /\ \A p \in (13..16) \cup (18..32) : buf[p] = 255
    /\ result = Ok(value, 32)

(* ------------------------------------------------------------------ *)
(* Properties of the declared sizes                                    *)
(* ------------------------------------------------------------------ *)

\* Some value of the written request's type has another size.
WidthVaries ==
    \E v \in RequestValues :
        /\ v.msg = value.msg
        /\ Request_x11_size(v) # Request_x11_size(value)

\* The sizes of the requests that declare a constant size.
DeclaredSize ==
    [ChangeSavedWindows |-> 8, ListExtensions |-> 4,
     SetScreenSaver |-> 12, GetScreenSaver |-> 4]

\* C19: a type declares a constant size exactly when its width never
\* varies: Delay declares 2 and every Delay has that size; a written
\* ChangeSavedWindows, ListExtensions, SetScreenSaver or GetScreenSaver is of
\* a type that declares a constant size, and its size is that constant; the
\* type of a written QueryExtension, whose size varies with the name,
\* declares none.
C19_ConstantSize ==
    /\ X11_SIZE = 2
    /\ \A d \in DelaySample : x11_size(d) = X11_SIZE
    /\ (ty = "Request" /\ op = "written")
        => /\ RequestNamed(value.msg).constant <=> ~WidthVaries
           /\ value.msg \in DOMAIN DeclaredSize
                => /\ RequestNamed(value.msg).constant
                   /\ Request_x11_size(value) = DeclaredSize[value.msg]
                   /\ Len(buf) = DeclaredSize[value.msg]
           /\ value.msg = "QueryExtension"
                => /\ ~RequestNamed(value.msg).constant
                   /\ WidthVaries

(* ------------------------------------------------------------------ *)
(* Properties of bitmasks                                              *)
(* ------------------------------------------------------------------ *)

IsEnterLeaveMask == ty = "Mask" /\ value.mask = "EnterLeaveMask"

\* C20: EnterLeaveMask is one byte with the flags FOCUS = 0x01 and
\* SAME_SCREEN = 0x02; an encoded mask has the bits 0x04 to 0x80 clear, and
\* any byte decodes, with success, to the mask of its two lowest bits.
C20_EnterLeaveMaskUnusedBits ==
    /\ EnterLeaveMask.FOCUS = 1
    /\ EnterLeaveMask.SAME_SCREEN = 2
    /\ DOMAIN EnterLeaveMask = {"FOCUS", "SAME_SCREEN"}
    /\ IntWidth["EnterLeaveMask"] = 1
    /\ (IsEnterLeaveMask /\ op = "written")
        => /\ Len(buf) = 1
           /\ buf[1] \div 4 = 0
           /\ buf[1] = value.v
    /\ (IsEnterLeaveMask /\ op \in {"read", "read_back"})
        => result = Ok(buf[1] % 4, 1)
    /\ (IsEnterLeaveMask /\ op = "read_back")
        => result = Ok(value.v, 1)

\* The byte 0xFE, every unused bit and SAME_SCREEN set, was decoded to the
\* mask SAME_SCREEN.
C20_Witness ==
    /\ IsEnterLeaveMask
    /\ op = "read"
    /\ buf = <<254>>
    /\ result = Ok(2, 1)

(* ------------------------------------------------------------------ *)
(* Further properties of Delay                                         *)
(* ------------------------------------------------------------------ *)

\* The integer that the third and fourth byte of the buffer hold.
RewrittenInt == AsI16(buf[3] * 256 + buf[4])

\* C21: Delay::read_from succeeds exactly on the integers -1..255, and
\* writing the Delay it returns with Delay::write_to produces the integer
\* that was read, in the same two bytes.
C21_CanonicalEncoding ==
    /\ DelayRead => (result.kind = "Ok" <=> WireInt \in -1..255)
    /\ (ty = "Delay" /\ op = "rewritten")
        => /\ Len(buf) = 4
           /\ WireInt \in -1..255
           /\ RewrittenInt = WireInt
           /\ SubSeq(buf, 3, 4) = SubSeq(buf, 1, 2)

\* The integer 255, the largest that decodes, was decoded and written again
\* as 255.
C21_Witness ==
    /\ ty = "Delay"
    /\ op = "rewritten"
    /\ result = Ok(Enabled(255), 2)
    /\ buf = <<0, 255, 0, 255>>

\* The integer 0 was decoded to Disabled and written again as 0.
C21_ZeroWitness ==
    /\ ty = "Delay"
    /\ op = "rewritten"
    /\ value = NoValue
    /\ result = Ok(Disabled, 2)
    /\ buf = <<0, 0, 0, 0>>

\* The outcome of Delay::read_from on the two bytes of the field alone.
FieldAlone == Delay_read_from(value.field, 0)

\* C22: with at least 2 bytes left at the cursor, Delay::read_from leaves the
\* cursor exactly 2 bytes further, when it returns a Delay and when it
\* returns FailedConversion alike, and its outcome is that of the two bytes
\* at the cursor, whatever precedes or follows them.
C22_CursorAdvancesByTwo ==
    /\ (ty = "Delay" /\ op = "read_in_frame")
        => /\ cursor = value.start + 2
           /\ result.c = cursor
           /\ cursor <= Len(buf)
           /\ result.kind \in {"Ok", "Err"}
           /\ result.kind = "Err" => result.err = "FailedConversion"
           /\ result.kind = FieldAlone.kind
           /\ result.val = FieldAlone.val
           /\ result.err = FieldAlone.err
           /\ SubSeq(buf, value.start + 1, value.start + 2) = value.field
    /\ DelayRead
        => /\ cursor = 2
           /\ result.kind \in {"Ok", "Err"}

\* The integer -32768 was refused with FailedConversion at cursor 2 of a
\* 6-byte buffer, and the cursor stands at 4.
C22_Witness ==
    /\ ty = "Delay"
    /\ op = "read_in_frame"
    /\ buf = <<255, 255, 128, 0, 255, 255>>
    /\ result.kind = "Err"
    /\ result.err = "FailedConversion"
    /\ cursor = 4

====
